---- MODULE Spec2Model ----
(***************************************************************************)
(* The weather cache of fitanalysis/WeatherData.py: the two store classes  *)
(* AEMETFitWeatherData (daily provider) and MeteocatFitWeatherData (hourly *)
(* provider, one request per variable), their load / save / compose, the   *)
(* fetch threads that compose starts and joins, and the CSV file.          *)
(*                                                                         *)
(* Data frames are sequences of rows.  A row is                            *)
(*   [time, date, hour, vals]                                              *)
(* where time is an instant [utc |-> minutes, off |-> UTC offset in hours] *)
(* (NaT for a missing timestamp), date is a calendar day (the ordinal of   *)
(* the day, standing for its 'YYYY-MM-DD' string), hour is 0..23 and vals  *)
(* maps each variable acronym to <<v>> or to <<>> (NaN / column absent).   *)
(*                                                                         *)
(* pandas behaviour is that of pandas 2.1/2.2 (the code uses               *)
(* DataFrame.map, new in 2.1).                                             *)
(***************************************************************************)
EXTENDS Integers, Sequences, FiniteSets, TLC

VARIABLES
    kind,          \* class of the store instance: "AEMET" or "Meteocat"
    _data,         \* self._data: the rows held in memory
    _dates,        \* self._dates: the cached dates
    file,          \* the CSV file Path(_base_dir)/_filename: Absent or its rows
    pc,            \* where the caller is: "idle", or inside compose at "join"
    save,          \* compose's argument save
    todo,          \* compose: the missing dates whose threads are not started yet
    threads,       \* compose: the started threads that have not finished
    results,       \* compose: the list `results` the threads append to
    weather_data,  \* compose: the frame weather_data built so far
    call,          \* observation: the operation in progress or last completed
    rt,            \* observation: save() / fresh instance / load() round trip
    mrg,           \* the merge experiment (used by SpecMerge only)
    qry,           \* get_daily_weather: the call in progress or last completed
    cols,          \* the column name mappings of the metrics classes and objects
    suspended,     \* a second thread of the caller inside compose, not running
    heap,          \* two store objects and the class attributes (SpecInstances)
    norm           \* a response before and after average_min_max_columns

vars == <<kind, _data, _dates, file, pc, save, todo, threads, results,
          weather_data, call, rt, mrg, qry, cols, suspended, heap, norm>>

-----------------------------------------------------------------------------
(* Bounds *)

\* the number of calendar dates a caller may ask for
MaxDates == 2
\* the hours 0..MaxHour of a day are modelled (the code: range(0,24))
MaxHour == 1
\* the first NumVars rows of Meteocat's weather_variables table are modelled
NumVars == 2
\* SpecMerge draws variable values from 1..MaxVal
MaxVal == 2

-----------------------------------------------------------------------------
(* Calendar, timestamps *)

\* Sample days of 2022 as day ordinals: Jan 15, Jul 15, Feb 15, Aug 15, ...
SampleDays == <<15, 196, 46, 227, 74, 258>>

Dates == {SampleDays[i] : i \in 1..MaxDates}

Hours == 0..MaxHour

\* _timezone = 'Europe/Madrid': UTC+2 from Mar 27 (day 86) to Oct 29 (day 302)
\* of 2022, UTC+1 otherwise.
MadridOffset(day) == IF day \in 86..302 THEN 2 ELSE 1

NaT == [utc |-> 0 - 1, off |-> 0]

\* x.strftime('%Y-%m-%d') of a timezone-aware timestamp: its local calendar day
StrfDate(t) == (t.utc + t.off * 60) \div (24 * 60)

\* x.hour of a timezone-aware timestamp: its local hour
HourOf(t) == ((t.utc + t.off * 60) \div 60) % 24

\* Series.dt.tz_convert(tz): the same instant shown in Europe/Madrid
TzConvertMadrid(t) == [utc |-> t.utc, off |-> MadridOffset(t.utc \div (24 * 60))]

-----------------------------------------------------------------------------
(* Variables and values *)

AllVars == {"T", "RH", "p", "pp"}

\* MeteocatFitWeatherData.weather_variables: code -> acronym
MeteocatVariables == <<[code |-> 32, acronym |-> "T"], [code |-> 33, acronym |-> "RH"],
                       [code |-> 34, acronym |-> "p"], [code |-> 35, acronym |-> "pp"]>>

MeteocatCodes == {MeteocatVariables[i].code : i \in 1..NumVars}

\* self.weather_variables.loc[self.weather_variables.code==code,'acronym'].iloc[0]
Acronym(code) ==
    MeteocatVariables[CHOOSE i \in 1..Len(MeteocatVariables) :
                          MeteocatVariables[i].code = code].acronym

NoVals == [v \in AllVars |-> <<>>]

\* The place of row i of s in the sorted frame: after every row with an
\* earlier time and after the rows of the same time that stand before it.
TimeRank(s, i) ==
    Cardinality({j \in 1..Len(s) :
                    \/ s[j].time.utc < s[i].time.utc
                    \/ s[j].time.utc = s[i].time.utc /\ j <= i})

\* DataFrame.sort_values(by='time', ascending=True)
SortValuesByTime(s) ==
    [k \in 1..Len(s) |-> s[CHOOSE i \in 1..Len(s) : TimeRank(s, i) = k]]

\* set(frame['time'].apply(lambda x: x.strftime('%Y-%m-%d')))
DatesOfFrame(s) == {StrfDate(s[i].time) : i \in 1..Len(s)}

-----------------------------------------------------------------------------
(* The CSV file *)

NoFile == [exists |-> FALSE, rows |-> <<>>]

\* One row as DataFrame.to_csv writes it: the time as local wall-clock time
\* followed by its UTC offset, numbers as decimal text, NaN as an empty cell.
CsvRow(r) ==
    [time  |-> [wall |-> r.time.utc + r.time.off * 60, off |-> r.time.off],
     date  |-> r.date,
     hour  |-> r.hour,
     cells |-> r.vals]

\* self._data.to_csv(filename, index=False).  An empty frame (pd.DataFrame(),
\* no columns) is written as a file without a header line.
ToCsv(frame) == [exists |-> TRUE, rows |-> [i \in 1..Len(frame) |-> CsvRow(frame[i])]]

\* What a to_csv that raises OSError leaves of the file f: f itself (the file
\* cannot be opened for writing), a file of no bytes (opening it truncated
\* it), or a file cut short (the disk filled up), of which the one with the
\* header and the first row is modelled.
FailedWrites(frame, f) ==
    {f, [exists |-> TRUE, rows |-> <<>>]}
        \cup (IF Len(frame) > 1
              THEN {[exists |-> TRUE, rows |-> SubSeq(ToCsv(frame).rows, 1, 1)]}
              ELSE {})

\* The outcomes of self._data.to_csv(filename, index=False), lines 293 (631):
\* the file is replaced by the frame, or the write raises.
to_csv(frame, f) ==
    {[file |-> ToCsv(frame), raised |-> FALSE]}
        \cup {[file |-> g, raised |-> TRUE] : g \in FailedWrites(frame, f)}

\* One row as pd.read_csv + pd.to_datetime read it back
ReadCsvRow(c) ==
    [time |-> [utc |-> c.time.wall - c.time.off * 60, off |-> c.time.off],
     date |-> c.date,
     hour |-> c.hour,
     vals |-> c.cells]

ReadCsv(f) == [i \in 1..Len(f.rows) |-> ReadCsvRow(f.rows[i])]

\* pd.to_datetime on strings of more than one UTC offset gives a column of
\* dtype object, on which the accessor .dt raises AttributeError.
MixedOffsets(frame) ==
    \E i, j \in 1..Len(frame) : frame[i].time.off # frame[j].time.off

\* Mutant of load: without the is_file() check a missing file makes
\* pd.read_csv raise FileNotFoundError.
load_NoFileCheck(data, dates, f) ==
    IF ~f.exists \/ f.rows = <<>> THEN [data |-> data, dates |-> dates, raised |-> TRUE]
    ELSE IF MixedOffsets(ReadCsv(f))
         THEN [data |-> ReadCsv(f), dates |-> dates, raised |-> TRUE]
    ELSE [data |-> ReadCsv(f), dates |-> DatesOfFrame(ReadCsv(f)), raised |-> FALSE]

\* load(): the state it leaves and whether it raised.
\*   - no file: return None, nothing changes;
\*   - a file without columns: pd.read_csv raises EmptyDataError before
\*     self._data is assigned;
\*   - mixed offsets: self._data is assigned, then line 277 (614) raises and
\*     self._dates keeps its old value;
\*   - otherwise self._data and self._dates are replaced.
load(data, dates, f) ==
    IF ~f.exists THEN [data |-> data, dates |-> dates, raised |-> FALSE]
    ELSE IF f.rows = <<>> THEN [data |-> data, dates |-> dates, raised |-> TRUE]
    ELSE IF MixedOffsets(ReadCsv(f))
         THEN [data |-> ReadCsv(f), dates |-> dates, raised |-> TRUE]
    ELSE [data |-> ReadCsv(f), dates |-> DatesOfFrame(ReadCsv(f)), raised |-> FALSE]

-----------------------------------------------------------------------------
(* The providers and the normalisation of their responses *)

\* The daily record AEMET holds for a day (the observation of a past day is
\* a fixed fact): values in tenths, as numbers.
AemetDatos(d) ==
    [tmed |-> 100 + (d % 7), prec |-> (d % 3),
     presMax |-> 10204 + (d % 5), presMin |-> 10200 + (d % 5)]

\* A column name of the renamed response: the name is stem followed by ext,
\* ext being "min", "max" or "" ('pmin' is stem "p", ext "min").  No stem
\* contains 'min' or 'max', so col.endswith('min') is ext = "min" and
\* col.replace('min', x) replaces the ext.
Col(stem, ext) == [stem |-> stem, ext |-> ext]

\* Mutant of average_min_max_columns: the min and max columns are dropped
\* and no average is written.
average_min_max_columns_DropOnly(df) ==
    [c \in {c \in DOMAIN df : c.ext = ""} |-> df[c]]

\* average_min_max_columns(df), lines 319-326.  df maps the names of the
\* variable columns to the row's values ('date', 'time' and 'hour' end with
\* neither 'min' nor 'max' and pass through).  For every column ending with
\* 'min' whose 'max' column exists the column of the bare stem is set to
\* (min + max) / 2; then every column ending with 'min' or 'max' is dropped.
\* Values are whole numbers of tenths and the sums here are even.
average_min_max_columns(df) ==
    LET paired   == {c.stem : c \in {c \in DOMAIN df :
                                       c.ext = "min" /\ Col(c.stem, "max") \in DOMAIN df}}
        averaged == [c \in DOMAIN df \cup {Col(st, "") : st \in paired} |->
                        IF c.ext = "" /\ c.stem \in paired
                        THEN (df[Col(c.stem, "min")] + df[Col(c.stem, "max")]) \div 2
                        ELSE df[c]]
    IN  [c \in {c \in DOMAIN averaged : c.ext = ""} |-> averaged[c]]

\* AEMET process_date, lines 337-355: the one-row frame appended to results.
\* obs_time is 13:00 at +02:00 (11:00 UTC) of the date, shown in Europe/Madrid.
\* The rename maps code to acronym: tmed -> T, prec -> pp, presMax -> pmin,
\* presMin -> pmax (lines 213-220).
process_date(d) ==
    LET datos   == AemetDatos(d)
        obstime == TzConvertMadrid([utc |-> d * 24 * 60 + (13 - 2) * 60, off |-> 2])
        renamed == (Col("T", "") :> datos.tmed) @@ (Col("pp", "") :> datos.prec) @@
                   (Col("p", "min") :> datos.presMax) @@ (Col("p", "max") :> datos.presMin)
        out     == average_min_max_columns(renamed)
    IN  <<[time |-> obstime,
           date |-> d,
           hour |-> HourOf(obstime),
           vals |-> [v \in AllVars |->
                        IF Col(v, "") \in DOMAIN out THEN <<out[Col(v, "")]>> ELSE <<>>]]>>

\* The validation state ('estat') of the half-hourly readings Meteocat holds
\* for a variable, a day and an hour; like the readings themselves it is a
\* fixed fact of the provider's archive.  'V' is validated, 'T' is not.
\* In this archive the readings of relative humidity (33) of hour MaxHour
\* are not validated on the even sample days, and air pressure (34) has no
\* validated reading at all on day 46.
Estat(d, code, h) ==
    IF \/ code = 33 /\ d % 2 = 0 /\ h = MaxHour
       \/ code = 34 /\ d = 46
    THEN "T" ELSE "V"

\* data['lectures'] of the response: two readings an hour, timestamps in UTC
Lectures(d, code) ==
    [k \in 1..(2 * (MaxHour + 1)) |->
        LET h == (k - 1) \div 2
            m == 30 * ((k - 1) % 2)
        IN  [data  |-> [utc |-> (d * 24 + h) * 60 + m, off |-> 0],
             valor |-> code + (d % 7) + (10 * h) + (m \div 15),
             estat |-> Estat(d, code, h)]]

RECURSIVE SumValor(_)
SumValor(s) == IF s = <<>> THEN 0 ELSE s[1].valor + SumValor(Tail(s))

\* Meteocat process_date_code, lines 665-677: drop unvalidated readings,
\* derive the hour from the (UTC) timestamp, group by hour taking the first
\* timestamp and the mean value.  With no validated reading the frame has no
\* columns and data.drop(columns=[...]) raises KeyError: the thread dies.
process_date_code(d, code) ==
    LET valid == SelectSeq(Lectures(d, code), LAMBDA l : l.estat = "V")
        hrs   == {HourOf(valid[i].data) : i \in 1..Len(valid)}
        of(h) == SelectSeq(valid, LAMBDA l : HourOf(l.data) = h)
    IN  [crashed |-> valid = <<>>,
         acronym |-> Acronym(code),
         hours   |-> hrs,
         time    |-> [h \in hrs |-> of(h)[1].data],
         mean    |-> [h \in hrs |-> SumValor(of(h)) \div Len(of(h))]]

\* Lines 682 and 693-696: day_df starts as the column hour = 0..23; every
\* result is left-joined on hour.  The column time comes from the first
\* result only (the later ones arrive as time_tmp and are dropped), so an
\* hour the first result lacks keeps time = NaT.  The column date is added
\* at the end, line 702.
day_df(res) ==
    [k \in 1..(MaxHour + 1) |->
        LET h == k - 1
        IN  [time |-> IF res # <<>> /\ h \in res[1].hours THEN res[1].time[h] ELSE NaT,
             hour |-> h,
             vals |-> [v \in AllVars |->
                        IF \E i \in 1..Len(res) : res[i].acronym = v /\ h \in res[i].hours
                        THEN <<res[CHOOSE i \in 1..Len(res) :
                                      res[i].acronym = v /\ h \in res[i].hours].mean[h]>>
                        ELSE <<>>]]]

\* Line 702: weather_data['date'] = weather_data['time'].apply(strftime).
\* NaT.strftime raises ValueError; without any result there is no column
\* 'time' and the lookup raises KeyError.
DateColumnRaises(wd) == \E i \in 1..Len(wd) : wd[i].time = NaT

WithDateColumn(wd) ==
    [i \in 1..Len(wd) |->
        [time |-> wd[i].time, date |-> StrfDate(wd[i].time),
         hour |-> wd[i].hour, vals |-> wd[i].vals]]

\* Mutant of MergeData: the concatenation leaves out self._data.
MergeData_DropsOld(data, wd) == SortValuesByTime(wd)

\* Mutant of MergeData: the sort is left out.
MergeData_NoSort(data, wd) == data \o wd

\* Lines 375-379 (706-710): concatenate, sort by time, recompute the dates.
\* There is no drop_duplicates.
MergeData(data, wd) == SortValuesByTime(data \o wd)

\* Mutant of MissingDates: the cached dates are not subtracted.
MissingDates_IgnoreCache(requested, dates) == requested

\* Line 315 (652): dates = list(set(dates) - set(self._dates))
MissingDates(requested, dates) == requested \ dates

-----------------------------------------------------------------------------
(* Observation of the operations (history, not program state) *)

Snapshot == [data |-> _data, dates |-> _dates]

\* op: the operation; dates: compose's argument; repeat: the operation that
\* completed just before was compose with the same argument (for save: was a
\* save that raised); raised: it ended
\* with an exception; fetched: the dates it started fetch threads for;
\* started: how many times it called start() on a thread of each (date, code);
\* okDates / failedDates: the fetched dates all of whose threads delivered a
\* result / none of whose threads did; hadFile: the file existed at entry;
\* before: the store at entry; start: the store after compose's implicit
\* load; merged: compose reached lines 376-379 (707-710); done: it returned;
\* returned: the value it returned, <<>> for None (compose returns at line
\* 317 (654) or at its end, without a value; load and save return no report).
AllTasks ==
    {[date |-> d, code |-> c] : d \in Dates, c \in {0} \cup MeteocatCodes}

NoCall ==
    [op |-> "construct", dates |-> {}, repeat |-> FALSE, raised |-> FALSE,
     returned |-> <<>>, started |-> [t \in AllTasks |-> 0],
     fetched |-> {}, okDates |-> {}, failedDates |-> {}, hadFile |-> FALSE,
     before |-> [data |-> <<>>, dates |-> {}], start |-> [data |-> <<>>, dates |-> {}],
     merged |-> FALSE, done |-> TRUE]

NoRoundTrip == [stage |-> "none", data |-> <<>>, dates |-> {}]

NoMerge == [phase |-> "off"]

\* stage: "none", "called" (the arguments are bound, compose is next or runs)
\* or "returned"; error: "" or the exception get_daily_weather ended with;
\* df: the frame returned; before: the store when it was called.
NoQuery ==
    [stage |-> "none", dates |-> {}, startHour |-> <<>>, endHour |-> <<>>,
     error |-> "", df |-> <<>>, before |-> [data |-> <<>>, dates |-> {}]]

NoColumns == [shortnames |-> <<>>, objs |-> <<>>, found |-> <<>>]

\* A thread of the caller other than the running one, with its position in
\* compose and compose's locals; pc = "none": there is no such thread.
\* overlapped: one of the two threads was inside compose while the other ran.
NoThread ==
    [pc |-> "none", save |-> FALSE, todo |-> <<>>, threads |-> {}, results |-> <<>>,
     weather_data |-> <<>>, call |-> NoCall, overlapped |-> FALSE]

Idle == pc = "idle"

ComposeLocalsReset ==
    /\ save' = FALSE
    /\ todo' = <<>>
    /\ threads' = {}
    /\ results' = <<>>
    /\ weather_data' = <<>>

-----------------------------------------------------------------------------
(* Construction, load(), save() *)

\* Class attributes _data = pd.DataFrame(), _dates = set(): the state of a
\* new instance.  The file is untouched by __init__.
\* df: the variable columns of a response row, <<>> before one is chosen;
\* out: what average_min_max_columns returns for it, <<>> before the call.
NoNorm == [df |-> <<>>, out |-> <<>>]

\* The two store classes, each with its class attributes _data = pd.DataFrame()
\* and _dates = set() (lines 224-225, 561-562), and its default file name.
Classes == {"AEMET", "Meteocat"}

\* The store objects of SpecInstances
StoreNames == {"a", "b"}

\* A store object after __init__: it has no attribute _data or _dates of
\* its own (<<>>); an attribute it has is <<value>>.
NewStore(c) == [cls |-> c, data |-> <<>>, dates |-> <<>>]

\* klass: the objects the class attributes hold; inst: the store objects;
\* files: the file of each class's default file name; last: the object the
\* last operation was called on.
NoHeap ==
    [klass |-> [c \in Classes |-> [data |-> <<>>, dates |-> {}]],
     inst  |-> [n \in StoreNames |-> NewStore("AEMET")],
     files |-> [c \in Classes |-> NoFile],
     last  |-> ""]

Init ==
    /\ kind \in {"AEMET", "Meteocat"}
    /\ _data = <<>>
    /\ _dates = {}
    /\ file = NoFile
    /\ pc = "idle"
    /\ save = FALSE
    /\ todo = <<>>
    /\ threads = {}
    /\ results = <<>>
    /\ weather_data = <<>>
    /\ call = NoCall
    /\ rt = NoRoundTrip
    /\ mrg = NoMerge
    /\ qry = NoQuery
    /\ cols = NoColumns
    /\ suspended = NoThread
    /\ heap = NoHeap
    /\ norm = NoNorm

\* A new instance of the same class on the same file replaces the store.
Construct ==
    /\ Idle
    /\ _data' = <<>>
    /\ _dates' = {}
    /\ call' = [NoCall EXCEPT !.hadFile = file.exists, !.before = Snapshot]
    /\ rt' = IF rt.stage = "saved" THEN [rt EXCEPT !.stage = "fresh"] ELSE NoRoundTrip
    /\ UNCHANGED <<kind, file, pc, save, todo, threads, results, weather_data, mrg, qry, cols, suspended, heap, norm>>

\* load() called by the user
Load ==
    /\ Idle
    /\ LET ld == load(_data, _dates, file)
       IN  /\ _data' = ld.data
           /\ _dates' = ld.dates
           /\ call' = [NoCall EXCEPT !.op = "load", !.raised = ld.raised,
                                     !.hadFile = file.exists, !.before = Snapshot,
                                     !.start = Snapshot]
    /\ rt' = IF rt.stage = "fresh" THEN [rt EXCEPT !.stage = "loaded"] ELSE NoRoundTrip
    /\ UNCHANGED <<kind, file, pc, save, todo, threads, results, weather_data, mrg, qry, cols, suspended, heap, norm>>

\* Mutant of Save: the frame is appended to the file (to_csv with mode='a')
\* instead of replacing it.
Save_Appends ==
    /\ Idle
    /\ file' = [exists |-> TRUE, rows |-> file.rows \o ToCsv(_data).rows]
    /\ call' = [NoCall EXCEPT !.op = "save",
                              !.repeat = (call.op = "save" /\ call.raised),
                              !.hadFile = file.exists,
                              !.before = Snapshot, !.start = Snapshot]
    /\ rt' = NoRoundTrip
    /\ UNCHANGED <<kind, _data, _dates, pc, save, todo, threads, results,
                   weather_data, mrg, qry, cols, suspended, heap, norm>>

\* save() called by the user
Save ==
    /\ Idle
    /\ \E w \in to_csv(_data, file) :
          /\ file' = w.file
          /\ call' = [NoCall EXCEPT !.op = "save", !.raised = w.raised,
                                    !.repeat = (call.op = "save" /\ call.raised),
                                    !.hadFile = file.exists,
                                    !.before = Snapshot, !.start = Snapshot]
          /\ rt' = IF w.raised THEN NoRoundTrip
                   ELSE [stage |-> "saved", data |-> _data, dates |-> _dates]
    /\ UNCHANGED <<kind, _data, _dates, pc, save, todo, threads, results,
                   weather_data, mrg, qry, cols, suspended, heap, norm>>

-----------------------------------------------------------------------------
(* compose(dates, save) *)

\* Lines 310-312 (647-649): if not self._dates: self.load()
ImplicitLoad ==
    IF _dates = {} THEN load(_data, _dates, file)
    ELSE [data |-> _data, dates |-> _dates, raised |-> FALSE]

ComposeCall(D) ==
    [NoCall EXCEPT !.op = "compose", !.dates = D,
                   !.repeat = (call.op = "compose" /\ call.dates = D),
                   !.hadFile = file.exists, !.before = Snapshot,
                   !.start = [data |-> ImplicitLoad.data, dates |-> ImplicitLoad.dates],
                   !.done = FALSE]

\* Mutant of Tasks: Meteocat starts a thread for the first variable only.
Tasks_FirstVariableOnly(d) ==
    {[date |-> d, code |-> IF kind = "AEMET" THEN 0 ELSE MeteocatVariables[1].code]}

\* The threads compose starts for one missing date: one for AEMET (line 361),
\* one per variable code for Meteocat (lines 685-686).
Tasks(d) ==
    IF kind = "AEMET" THEN {[date |-> d, code |-> 0]}
    ELSE {[date |-> d, code |-> c] : c \in MeteocatCodes}

\* t.start() for every thread of T (lines 362-363, 686-687): one more
\* thread runs for each of these units.
StartThreads(started, T) ==
    [t \in DOMAIN started |-> IF t \in T THEN started[t] + 1 ELSE started[t]]

\* The orders in which `for date in dates` may walk list(set(...))
Orders(S) ==
    {o \in [1..Cardinality(S) -> S] : \A i, j \in 1..Cardinality(S) : o[i] = o[j] => i = j}

\* The implicit load raises: compose ends with that exception.
ComposeLoadRaises(D) ==
    /\ Idle
    /\ ImplicitLoad.raised
    /\ _data' = ImplicitLoad.data
    /\ _dates' = ImplicitLoad.dates
    /\ call' = [ComposeCall(D) EXCEPT !.raised = TRUE, !.done = TRUE]
    /\ rt' = NoRoundTrip
    /\ UNCHANGED <<kind, file, pc, save, todo, threads, results, weather_data, mrg, qry, cols, suspended, heap, norm>>

\* Lines 315-317 (652-654): nothing is missing, return.
ComposeNothingMissing(D) ==
    /\ Idle
    /\ ~ImplicitLoad.raised
    /\ MissingDates(D, ImplicitLoad.dates) = {}
    /\ _data' = ImplicitLoad.data
    /\ _dates' = ImplicitLoad.dates
    /\ call' = [ComposeCall(D) EXCEPT !.done = TRUE]
    /\ rt' = NoRoundTrip
    /\ UNCHANGED <<kind, file, pc, save, todo, threads, results, weather_data, mrg, qry, cols, suspended, heap, norm>>

\* AEMET, lines 357-364: one thread per missing date, all started before any join.
ComposeStartAEMET(D, s) ==
    /\ Idle
    /\ kind = "AEMET"
    /\ ~ImplicitLoad.raised
    /\ MissingDates(D, ImplicitLoad.dates) # {}
    /\ _data' = ImplicitLoad.data
    /\ _dates' = ImplicitLoad.dates
    /\ pc' = "join"
    /\ save' = s
    /\ todo' = <<>>
    /\ threads' = UNION {Tasks(d) : d \in MissingDates(D, ImplicitLoad.dates)}
    /\ results' = <<>>
    /\ weather_data' = <<>>
    /\ call' = [ComposeCall(D) EXCEPT
                  !.fetched = MissingDates(D, ImplicitLoad.dates),
                  !.started = StartThreads(@, threads')]
    /\ rt' = NoRoundTrip
    /\ UNCHANGED <<kind, file, mrg, qry, cols, suspended, heap, norm>>

\* Meteocat, lines 679-689: the missing dates are walked one at a time; the
\* threads of the first date are started.
ComposeStartMeteocat(D, s) ==
    /\ Idle
    /\ kind = "Meteocat"
    /\ ~ImplicitLoad.raised
    /\ MissingDates(D, ImplicitLoad.dates) # {}
    /\ \E o \in Orders(MissingDates(D, ImplicitLoad.dates)) :
          /\ todo' = o
          /\ threads' = Tasks(o[1])
          /\ call' = [ComposeCall(D) EXCEPT !.fetched = {o[1]},
                                            !.started = StartThreads(@, Tasks(o[1]))]
    /\ _data' = ImplicitLoad.data
    /\ _dates' = ImplicitLoad.dates
    /\ pc' = "join"
    /\ save' = s
    /\ results' = <<>>
    /\ weather_data' = <<>>
    /\ rt' = NoRoundTrip
    /\ UNCHANGED <<kind, file, mrg, qry, cols, suspended, heap, norm>>

\* A thread's get_data raises ValueError (the response is not 200 OK): caught
\* at line 334 (662), logged, the thread returns without a result.
FetchValueError(t) ==
    /\ pc = "join"
    /\ t \in threads
    /\ threads' = threads \ {t}
    /\ UNCHANGED <<kind, _data, _dates, file, pc, save, todo, results, weather_data,
                   call, rt, mrg, qry, cols, suspended, heap, norm>>

\* A thread's get_data raises anything else (requests' ConnectionError or
\* Timeout, a body that is not JSON): nothing catches it, the thread dies
\* without a result and join() returns as for any finished thread.
FetchTransportError(t) ==
    /\ pc = "join"
    /\ t \in threads
    /\ threads' = threads \ {t}
    /\ UNCHANGED <<kind, _data, _dates, file, pc, save, todo, results, weather_data,
                   call, rt, mrg, qry, cols, suspended, heap, norm>>

\* An AEMET thread gets the day's record and appends its one-row frame.
FetchAEMET(t) ==
    /\ pc = "join"
    /\ kind = "AEMET"
    /\ t \in threads
    /\ threads' = threads \ {t}
    /\ results' = Append(results, process_date(t.date))
    /\ UNCHANGED <<kind, _data, _dates, file, pc, save, todo, weather_data, call, rt, mrg, qry, cols, suspended, heap, norm>>

\* A Meteocat thread gets the readings of one variable and appends the hourly
\* summary; without a validated reading it dies in data.drop (line 668).
FetchMeteocat(t) ==
    /\ pc = "join"
    /\ kind = "Meteocat"
    /\ t \in threads
    /\ threads' = threads \ {t}
    /\ LET res == process_date_code(t.date, t.code)
       IN  results' = IF res.crashed THEN results ELSE Append(results, res)
    /\ UNCHANGED <<kind, _data, _dates, file, pc, save, todo, weather_data, call, rt, mrg, qry, cols, suspended, heap, norm>>

RECURSIVE Concat(_)
Concat(frames) == IF frames = <<>> THEN <<>> ELSE frames[1] \o Concat(Tail(frames))

\* Mutant of ComposeEnd: the file is written whatever the argument save.
ComposeEnd_AlwaysSaves(wd, raises, okD, failedD) ==
    /\ pc' = "idle"
    /\ ComposeLocalsReset
    /\ IF raises
       THEN /\ call' = [call EXCEPT !.raised = TRUE, !.done = TRUE,
                                    !.okDates = okD, !.failedDates = failedD]
            /\ UNCHANGED <<_data, _dates, file>>
       ELSE /\ _data' = MergeData(_data, wd)
            /\ _dates' = DatesOfFrame(MergeData(_data, wd))
            /\ file' = ToCsv(MergeData(_data, wd))
            /\ call' = [call EXCEPT !.merged = TRUE, !.done = TRUE,
                                    !.okDates = okD, !.failedDates = failedD]
    /\ UNCHANGED <<kind, rt, mrg, qry, cols, suspended, heap, norm>>

\* The end of compose once weather_data is complete: lines 372-381 (701-712).
\* `raises`: lines 373-374 find no column 'time' (AEMET, no result at all) or
\* line 702 raises (Meteocat); then nothing has been assigned.  Otherwise the
\* rows are merged and, with save, self.save() is called (lines 380-381,
\* 711-712), whose exception is compose's.
ComposeEnd(wd, raises, okD, failedD) ==
    /\ pc' = "idle"
    /\ ComposeLocalsReset
    /\ IF raises
       THEN /\ call' = [call EXCEPT !.raised = TRUE, !.done = TRUE,
                                    !.okDates = okD, !.failedDates = failedD]
            /\ UNCHANGED <<_data, _dates, file>>
       ELSE \E merged \in {MergeData(_data, wd)} :
            /\ _data' = merged
            /\ _dates' = DatesOfFrame(merged)
            /\ \E w \in (IF save THEN to_csv(merged, file)
                         ELSE {[file |-> file, raised |-> FALSE]}) :
                  /\ file' = w.file
                  /\ call' = [call EXCEPT !.raised = w.raised,
                                          !.merged = TRUE, !.done = TRUE,
                                          !.okDates = okD, !.failedDates = failedD]
    /\ UNCHANGED <<kind, rt, mrg, qry, cols, suspended, heap, norm>>

\* Mutant of JoinAEMET: the results are merged without joining the threads.
JoinAEMET_NoJoin ==
    /\ pc = "join"
    /\ kind = "AEMET"
    /\ LET okD == {results[i][1].date : i \in 1..Len(results)}
       IN  ComposeEnd(Concat(results), results = <<>>, okD, call.fetched \ okD)

\* AEMET, lines 365-381: every thread is joined, the results are concatenated.
JoinAEMET ==
    /\ pc = "join"
    /\ kind = "AEMET"
    /\ threads = {}
    /\ LET okD == {results[i][1].date : i \in 1..Len(results)}
       IN  ComposeEnd(Concat(results), results = <<>>, okD, call.fetched \ okD)

\* Mutant of JoinDateMeteocat: the day's rows are merged into the store as
\* soon as the day's threads are joined (a streaming merge).
JoinDateMeteocat_StreamingMerge ==
    /\ pc = "join"
    /\ kind = "Meteocat"
    /\ threads = {}
    /\ Len(todo) > 1
    /\ weather_data' = weather_data
    /\ _data' = IF DateColumnRaises(day_df(results)) THEN _data
                ELSE MergeData(_data, WithDateColumn(day_df(results)))
    /\ _dates' = DatesOfFrame(_data')
    /\ todo' = Tail(todo)
    /\ threads' = Tasks(todo[2])
    /\ results' = <<>>
    /\ call' = [call EXCEPT
                  !.fetched = @ \cup {todo[2]},
                  !.started = StartThreads(@, Tasks(todo[2])),
                  !.okDates = IF Len(results) = NumVars THEN @ \cup {todo[1]} ELSE @,
                  !.failedDates = IF results = <<>> THEN @ \cup {todo[1]} ELSE @]
    /\ UNCHANGED <<kind, file, pc, save, rt, mrg, qry, cols, suspended, heap, norm>>

\* Meteocat, lines 690-699 then 680-689 for the next date: the threads of the
\* current date are joined, its day_df is appended to weather_data and the
\* threads of the next date are started.
JoinDateMeteocat ==
    /\ pc = "join"
    /\ kind = "Meteocat"
    /\ threads = {}
    /\ Len(todo) > 1
    /\ weather_data' = weather_data \o day_df(results)
    /\ todo' = Tail(todo)
    /\ threads' = Tasks(todo[2])
    /\ results' = <<>>
    /\ call' = [call EXCEPT
                  !.fetched = @ \cup {todo[2]},
                  !.started = StartThreads(@, Tasks(todo[2])),
                  !.okDates = IF Len(results) = NumVars THEN @ \cup {todo[1]} ELSE @,
                  !.failedDates = IF results = <<>> THEN @ \cup {todo[1]} ELSE @]
    /\ UNCHANGED <<kind, _data, _dates, file, pc, save, rt, mrg, qry, cols, suspended, heap, norm>>

\* Meteocat, lines 690-712: the threads of the last date are joined.
JoinLastMeteocat ==
    /\ pc = "join"
    /\ kind = "Meteocat"
    /\ threads = {}
    /\ Len(todo) = 1
    /\ \E wd \in {weather_data \o day_df(results)} :
           ComposeEnd(WithDateColumn(wd), DateColumnRaises(wd),
                      IF Len(results) = NumVars THEN call.okDates \cup {todo[1]}
                      ELSE call.okDates,
                      IF results = <<>> THEN call.failedDates \cup {todo[1]}
                      ELSE call.failedDates)

Next ==
    \/ Construct
    \/ Load
    \/ Save
    \/ \E D \in SUBSET Dates : ComposeLoadRaises(D)
    \/ \E D \in SUBSET Dates : ComposeNothingMissing(D)
    \/ \E D \in SUBSET Dates, s \in BOOLEAN : ComposeStartAEMET(D, s)
    \/ \E D \in SUBSET Dates, s \in BOOLEAN : ComposeStartMeteocat(D, s)
    \/ \E t \in threads : FetchValueError(t)
    \/ \E t \in threads : FetchTransportError(t)
    \/ \E t \in threads : FetchAEMET(t)
    \/ \E t \in threads : FetchMeteocat(t)
    \/ JoinAEMET
    \/ JoinDateMeteocat
    \/ JoinLastMeteocat

Spec == Init /\ [][Next]_vars

\* A started thread ends: its target returns a result, returns after the
\* caught ValueError, or dies of another exception.
ThreadEnds ==
    \E t \in threads :
        FetchValueError(t) \/ FetchTransportError(t) \/ FetchAEMET(t) \/ FetchMeteocat(t)

\* t.join() returns for the threads compose waits for and compose goes on
\* (lines 365-366, 690-691).
JoinReturns == JoinAEMET \/ JoinDateMeteocat \/ JoinLastMeteocat

\* One compose call on a new store instance, in the runs in which every
\* started thread ends and the caller of compose, once its join() calls can
\* return, is scheduled.
FirstCompose ==
    /\ call.op = "construct"
    /\ \E D \in SUBSET Dates, s \in BOOLEAN :
          \/ ComposeNothingMissing(D)
          \/ ComposeStartAEMET(D, s)
          \/ ComposeStartMeteocat(D, s)

NextLive ==
    \/ FirstCompose
    \/ ThreadEnds
    \/ JoinReturns

SpecLive == Init /\ [][NextLive]_vars /\ WF_vars(ThreadEnds) /\ WF_vars(JoinReturns)

-----------------------------------------------------------------------------
(* MeteocatFitWeatherData.get_daily_weather(dates, fun, startHour, endHour)  *)
(* with fun = None: the arguments are bound, compose(dates) runs with its    *)
(* threads, then the rows are selected.                                      *)

\* datetime.today().strftime("%Y-%m-%d"), line 728
Today == SampleDays[1]

\* An optional hour argument: None is <<>>, the hour h is <<h>>
OptionalHours == {<<>>} \cup {<<h>> : h \in Hours}

\* Lines 732-736: the rows whose date is among dates; `if startHour:` and
\* `if endHour:` apply a bound only when it is neither None nor 0.
DailyWeather(data, dates, startHour, endHour) ==
    LET df   == SelectSeq(data, LAMBDA r : r.date \in dates)
        from == IF startHour # <<>> /\ startHour[1] # 0
                THEN SelectSeq(df, LAMBDA r : r.hour >= startHour[1]) ELSE df
    IN  IF endHour # <<>> /\ endHour[1] # 0
        THEN SelectSeq(from, LAMBDA r : r.hour <= endHour[1]) ELSE from

\* Lines 714, 727-728: the call binds its arguments; without dates, today.
GetDailyWeatherCall(D, startHour, endHour) ==
    /\ Idle
    /\ qry.stage # "called"
    /\ qry' = [NoQuery EXCEPT !.stage = "called",
                              !.dates = IF D = {} THEN {Today} ELSE D,
                              !.startHour = startHour, !.endHour = endHour,
                              !.before = Snapshot]
    /\ call' = [NoCall EXCEPT !.op = "get_daily_weather", !.hadFile = file.exists,
                              !.before = Snapshot, !.start = Snapshot]
    /\ UNCHANGED <<kind, _data, _dates, file, pc, save, todo, threads, results,
                   weather_data, rt, mrg, cols, suspended, heap, norm>>

\* Line 730: self.compose(dates), save taking its default True
GetDailyWeatherCompose ==
    /\ qry.stage = "called"
    /\ call.op = "get_daily_weather"
    /\ \/ ComposeLoadRaises(qry.dates)
       \/ ComposeNothingMissing(qry.dates)
       \/ ComposeStartMeteocat(qry.dates, TRUE)

\* Lines 732-740 once compose has returned; an exception of compose is the
\* exception of get_daily_weather.
GetDailyWeatherReturn ==
    /\ Idle
    /\ qry.stage = "called"
    /\ call.op = "compose" /\ call.done
    /\ qry' = IF call.raised
              THEN [qry EXCEPT !.stage = "returned", !.error = "compose"]
              ELSE [qry EXCEPT !.stage = "returned",
                               !.df = DailyWeather(_data, qry.dates,
                                                   qry.startHour, qry.endHour)]
    /\ UNCHANGED <<kind, _data, _dates, file, pc, save, todo, threads, results,
                   weather_data, call, rt, mrg, cols, suspended, heap, norm>>

InitQuery == Init /\ kind = "Meteocat"

NextQuery ==
    \/ \E D \in SUBSET Dates, startHour \in OptionalHours, endHour \in OptionalHours :
          GetDailyWeatherCall(D, startHour, endHour)
    \/ GetDailyWeatherCompose
    \/ \E t \in threads : FetchValueError(t)
    \/ \E t \in threads : FetchTransportError(t)
    \/ \E t \in threads : FetchMeteocat(t)
    \/ JoinDateMeteocat
    \/ JoinLastMeteocat
    \/ GetDailyWeatherReturn

SpecQuery == InitQuery /\ [][NextQuery]_vars

-----------------------------------------------------------------------------
(* The column names of OverViewFitMetrics and DailyFitMetrics.  A dict is a  *)
(* sequence of <<key, value>> pairs in insertion order, its keys distinct.   *)

Keys(d) == {d[i][1] : i \in 1..Len(d)}

\* d[k]
Get(d, k) == d[CHOOSE i \in 1..Len(d) : d[i][1] = k][2]

\* d[k] = v: a key already there keeps its place
Put(d, k, v) ==
    IF k \in Keys(d) THEN [i \in 1..Len(d) |-> IF d[i][1] = k THEN <<k, v>> ELSE d[i]]
    ELSE Append(d, <<k, v>>)

\* acc.update(d)
RECURSIVE Update(_, _)
Update(acc, d) == IF d = <<>> THEN acc ELSE Update(Put(acc, d[1][1], d[1][2]), Tail(d))

\* {value: key for key, value in d.items()}
RECURSIVE Flipped(_, _)
Flipped(acc, d) == IF d = <<>> THEN acc ELSE Flipped(Put(acc, d[1][2], d[1][1]), Tail(d))

\* OverViewFitMetrics._column_shortnames as the class body sets it
_column_shortnames ==
    <<<<"min", "Move Minutes count">>,
      <<"cal", "Calories (kcal)">>,
      <<"dis", "Distance (m)">>,
      <<"hp", "Heart Points">>,
      <<"hm", "Heart Minutes">>,
      <<"hr", "Average heart rate (bpm)">>,
      <<"maxhr", "Max heart rate (bpm)">>,
      <<"minhr", "Min heart rate (bpm)">>,
      <<"lowlat", "Low latitude (deg)">>,
      <<"lowlong", "Low longitude (deg)">>,
      <<"hilat", "High latitude (deg)">>,
      <<"hilong", "High longitude (deg)">>,
      <<"avgspeed", "Average speed (m/s)">>,
      <<"maxspeed", "Max speed (m/s)">>,
      <<"minspeed", "Min speed (m/s)">>,
      <<"sc", "Step count">>,
      <<"avgweight", "Average weight (kg)">>,
      <<"maxweight", "Max weight (kg)">>,
      <<"minweight", "Min weight (kg)">>,
      <<"cycling", "Cycling duration (ms)">>,
      <<"inactive", "Inactive duration (ms)">>,
      <<"unknown", "Unknown duration (ms)">>,
      <<"walking", "Walking duration (ms)">>,
      <<"running", "Running duration (ms)">>,
      <<"rowing", "Rowing machine duration (ms)">>,
      <<"treadmill", "Treadmill running duration (ms)">>,
      <<"stairs", "Stair climbing duration (ms)">>,
      <<"treadmillwalking", "Treadmill duration (ms)">>>>

\* DailyFitMetrics.prepare_data_overview, line 155
DailyColumns == << <<"st", "Start time">>, <<"et", "End time">> >>

\* The names _find_column_name is asked for: every short and every long name
\* of the two classes and names that are neither
ColumnNames ==
    Keys(_column_shortnames) \cup Keys(Flipped(<<>>, _column_shortnames))
        \cup Keys(DailyColumns) \cup Keys(Flipped(<<>>, DailyColumns))
        \cup {"Date", "Weekday", "Step Count", "time"}

\* the number of metrics objects constructed
MaxObjs == 2

\* _find_column_name(column) of an object whose self._column_shortnames and
\* self._column_longnames are the dicts shortnames and longnames: a short
\* name is returned as it is, a long name as its short name, any other
\* string raises KeyError.  (OverViewFitMetrics raises ValueError for a
\* column that is not a string; the columns here are strings.)
_find_column_name(shortnames, longnames, column) ==
    IF column \notin Keys(shortnames)
    THEN IF column \notin Keys(longnames)
         THEN [raised |-> TRUE, result |-> ""]
         ELSE [raised |-> FALSE, result |-> Get(longnames, column)]
    ELSE [raised |-> FALSE, result |-> column]

\* OverViewFitMetrics(dir_or_file): prepare_data_overview sets the object's
\* _column_longnames to the flipped class dict; _column_shortnames stays the
\* class attribute.
NewOverViewFitMetrics ==
    /\ Len(cols.objs) < MaxObjs
    /\ cols' = [cols EXCEPT
                  !.objs = Append(@, [cls |-> "OverViewFitMetrics",
                                      longnames |-> Flipped(<<>>, cols.shortnames)]),
                  !.found = <<>>]
    /\ UNCHANGED <<kind, _data, _dates, file, pc, save, todo, threads, results,
                   weather_data, call, rt, mrg, qry, suspended, heap, norm>>

\* DailyFitMetrics(load_date, dir_or_file): prepare_data_overview takes the
\* dict OverViewFitMetrics.get_columns() returns, which is the class dict
\* itself, and updates it in place with 'st' and 'et'; the object's
\* _column_longnames is the flipped result.
NewDailyFitMetrics ==
    /\ Len(cols.objs) < MaxObjs
    /\ LET updated == Update(cols.shortnames, DailyColumns)
       IN  cols' = [cols EXCEPT
                      !.shortnames = updated,
                      !.objs = Append(@, [cls |-> "DailyFitMetrics",
                                          longnames |-> Flipped(<<>>, updated)]),
                      !.found = <<>>]
    /\ UNCHANGED <<kind, _data, _dates, file, pc, save, todo, threads, results,
                   weather_data, call, rt, mrg, qry, suspended, heap, norm>>

\* obj._find_column_name(column): both classes read self._column_shortnames,
\* which is the one class dict of OverViewFitMetrics.
FindColumnName(obj, column) ==
    /\ obj \in 1..Len(cols.objs)
    /\ LET f == _find_column_name(cols.shortnames, cols.objs[obj].longnames, column)
       IN  cols' = [cols EXCEPT !.found = <<[obj |-> obj, column |-> column,
                                             raised |-> f.raised, result |-> f.result]>>]
    /\ UNCHANGED <<kind, _data, _dates, file, pc, save, todo, threads, results,
                   weather_data, call, rt, mrg, qry, suspended, heap, norm>>

InitColumns ==
    /\ kind = "AEMET"
    /\ _data = <<>>
    /\ _dates = {}
    /\ file = NoFile
    /\ pc = "idle"
    /\ save = FALSE
    /\ todo = <<>>
    /\ threads = {}
    /\ results = <<>>
    /\ weather_data = <<>>
    /\ call = NoCall
    /\ rt = NoRoundTrip
    /\ mrg = NoMerge
    /\ qry = NoQuery
    /\ cols = [shortnames |-> _column_shortnames, objs |-> <<>>, found |-> <<>>]
    /\ suspended = NoThread
    /\ heap = NoHeap
    /\ norm = NoNorm

NextColumns ==
    \/ NewOverViewFitMetrics
    \/ NewDailyFitMetrics
    \/ \E obj \in 1..MaxObjs, column \in ColumnNames : FindColumnName(obj, column)

SpecColumns == InitColumns /\ [][NextColumns]_vars

-----------------------------------------------------------------------------
(* Two threads of the caller each call compose once on the same store       *)
(* object.  compose takes no lock (lines 310-381, 647-712), so the two       *)
(* calls interleave; here they interleave between the steps of compose as    *)
(* modelled above: its entry up to the start of its threads, each result of  *)
(* a thread, and its end from the join to the save.                          *)

\* The interpreter suspends the running thread and resumes the other one.
Switch ==
    /\ suspended.pc # "none"
    /\ pc' = suspended.pc
    /\ save' = suspended.save
    /\ todo' = suspended.todo
    /\ threads' = suspended.threads
    /\ results' = suspended.results
    /\ weather_data' = suspended.weather_data
    /\ call' = suspended.call
    /\ suspended' = [pc |-> pc, save |-> save, todo |-> todo, threads |-> threads,
                     results |-> results, weather_data |-> weather_data,
                     call |-> call,
                     overlapped |-> suspended.overlapped \/ pc = "join"]
    /\ UNCHANGED <<kind, _data, _dates, file, rt, mrg, qry, cols, heap, norm>>

\* The running thread calls compose(dates, save), once.
ThreadCompose(D, s) ==
    /\ call.op = "construct"
    /\ \/ ComposeLoadRaises(D)
       \/ ComposeNothingMissing(D)
       \/ ComposeStartAEMET(D, s)
       \/ ComposeStartMeteocat(D, s)

InitConcurrent ==
    /\ kind \in {"AEMET", "Meteocat"}
    /\ _data = <<>>
    /\ _dates = {}
    /\ file = NoFile
    /\ pc = "idle"
    /\ save = FALSE
    /\ todo = <<>>
    /\ threads = {}
    /\ results = <<>>
    /\ weather_data = <<>>
    /\ call = NoCall
    /\ rt = NoRoundTrip
    /\ mrg = NoMerge
    /\ qry = NoQuery
    /\ cols = NoColumns
    /\ suspended = [NoThread EXCEPT !.pc = "idle"]
    /\ heap = NoHeap
    /\ norm = NoNorm

NextConcurrent ==
    \/ \E D \in (SUBSET Dates) \ {{}}, s \in BOOLEAN : ThreadCompose(D, s)
    \/ \E t \in threads : FetchValueError(t)
    \/ \E t \in threads : FetchTransportError(t)
    \/ \E t \in threads : FetchAEMET(t)
    \/ \E t \in threads : FetchMeteocat(t)
    \/ JoinAEMET
    \/ JoinDateMeteocat
    \/ JoinLastMeteocat
    \/ Switch

SpecConcurrent == InitConcurrent /\ [][NextConcurrent]_vars

-----------------------------------------------------------------------------
(* The merge step on its own: lines 375-379 (706-710) applied to a store    *)
(* and to two batches of rows, in both orders.                              *)

\* A row of the store's class for day d and (Meteocat) hour h with temperature v
RowAt(k, d, h, v) ==
    LET t == IF k = "AEMET"
             THEN TzConvertMadrid([utc |-> d * 24 * 60 + (13 - 2) * 60, off |-> 2])
             ELSE [utc |-> (d * 24 + h) * 60, off |-> 0]
    IN  [time |-> t, date |-> StrfDate(t), hour |-> HourOf(t),
         vals |-> [NoVals EXCEPT !["T"] = <<v>>]]

\* The rows of the days X, temperature v throughout: one row a day for
\* AEMET, one row an hour for Meteocat
RowsOf(k, X, v) ==
    {RowAt(k, d, h, v) : d \in X, h \in (IF k = "AEMET" THEN {0} ELSE Hours)}

RECURSIVE SeqOfSet(_)
SeqOfSet(S) ==
    IF S = {} THEN <<>>
    ELSE LET r == CHOOSE x \in S : TRUE IN <<r>> \o SeqOfSet(S \ {r})

Reverse(s) == [i \in 1..Len(s) |-> s[Len(s) + 1 - i]]

\* A batch as compose hands it to the merge step: the rows of the days X in
\* the order the threads finished, here ascending or descending in time
Batch(k, X, v, desc) ==
    IF desc THEN Reverse(SortValuesByTime(SeqOfSet(RowsOf(k, X, v))))
    ELSE SortValuesByTime(SeqOfSet(RowsOf(k, X, v)))

InitMerge ==
    /\ kind \in {"AEMET", "Meteocat"}
    /\ \E X \in SUBSET Dates, v \in 1..MaxVal :
          /\ _data = Batch(kind, X, v, FALSE)
          /\ _dates = DatesOfFrame(_data)
    /\ \E XA, XB \in (SUBSET Dates) \ {{}}, va, vb \in 1..MaxVal, da, db \in BOOLEAN :
          mrg = [phase |-> "start",
                 A |-> Batch(kind, XA, va, da), B |-> Batch(kind, XB, vb, db),
                 ab |-> <<>>, ba |-> <<>>]
    /\ file = NoFile
    /\ pc = "idle"
    /\ save = FALSE
    /\ todo = <<>>
    /\ threads = {}
    /\ results = <<>>
    /\ weather_data = <<>>
    /\ call = NoCall
    /\ rt = NoRoundTrip
    /\ qry = NoQuery
    /\ cols = NoColumns
    /\ suspended = NoThread
    /\ heap = NoHeap
    /\ norm = NoNorm

\* The first batch is merged into the store: A in one run, B in the other.
MergeFirst ==
    /\ mrg.phase = "start"
    /\ mrg' = [mrg EXCEPT !.phase = "one",
                          !.ab = MergeData(_data, mrg.A),
                          !.ba = MergeData(_data, mrg.B)]
    /\ UNCHANGED <<kind, _data, _dates, file, pc, save, todo, threads, results,
                   weather_data, call, rt, qry, cols, suspended, heap, norm>>

\* The second batch is merged: B after A, A after B.
MergeSecond ==
    /\ mrg.phase = "one"
    /\ mrg' = [mrg EXCEPT !.phase = "two",
                          !.ab = MergeData(mrg.ab, mrg.B),
                          !.ba = MergeData(mrg.ba, mrg.A)]
    /\ UNCHANGED <<kind, _data, _dates, file, pc, save, todo, threads, results,
                   weather_data, call, rt, qry, cols, suspended, heap, norm>>

NextMerge == MergeFirst \/ MergeSecond

SpecMerge == InitMerge /\ [][NextMerge]_vars

-----------------------------------------------------------------------------
(* Two store objects side by side.  _data and _dates are class attributes     *)
(* (lines 224-225, 561-562): reading self._data finds the object's own        *)
(* attribute if it has one and the class attribute otherwise; the assignment  *)
(* self._data = ... gives the object an attribute of its own; an in-place     *)
(* operation changes whichever object the read finds.  Objects of one class   *)
(* built with the default arguments share the file name.  The operations are  *)
(* whole calls; compose is asked for one date at a time and its threads       *)
(* deliver all or none, in the order in which they were started.              *)

\* self.<a> read on store object n
GetAttr(h, n, a) ==
    IF h.inst[n][a] # <<>> THEN h.inst[n][a][1] ELSE h.klass[h.inst[n].cls][a]

\* Mutant of SetAttr: the assignment binds the class attribute.
SetAttr_OnClass(h, n, a, v) == [h EXCEPT !.klass[h.inst[n].cls][a] = v]

\* self.<a> = v on store object n
SetAttr(h, n, a, v) == [h EXCEPT !.inst[n][a] = <<v>>]

\* An in-place operation on the object self.<a> refers to, leaving it as v
\* (line 276 `self._data['time'] = ...`, line 377 sort_values(inplace=True))
InPlace(h, n, a, v) ==
    IF h.inst[n][a] # <<>> THEN [h EXCEPT !.inst[n][a] = <<v>>]
    ELSE [h EXCEPT !.klass[h.inst[n].cls][a] = v]

\* load() on store object n (lines 270-278, 607-615)
StoreLoaded(h, n) ==
    LET f  == h.files[h.inst[n].cls]
        ld == load(GetAttr(h, n, "data"), GetAttr(h, n, "dates"), f)
    IN  IF ~f.exists \/ f.rows = <<>> THEN h
        ELSE IF ld.raised
             THEN InPlace(SetAttr(h, n, "data", ReadCsv(f)), n, "data", ld.data)
        ELSE SetAttr(InPlace(SetAttr(h, n, "data", ReadCsv(f)), n, "data", ld.data),
                     n, "dates", ld.dates)

\* weather_data at the end of the joins of a compose of class c that
\* started threads for the dates `missing`, those of the dates `ok` having
\* delivered (lines 367-369, 690-699)
WeatherDataOf(c, missing, ok) ==
    IF c = "AEMET"
    THEN Concat([i \in 1..Cardinality(ok) |-> process_date(SeqOfSet(ok)[i])])
    ELSE Concat([i \in 1..Cardinality(missing) |->
                    day_df(IF SeqOfSet(missing)[i] \in ok
                           THEN [k \in 1..NumVars |->
                                    process_date_code(SeqOfSet(missing)[i],
                                                      MeteocatVariables[k].code)]
                           ELSE <<>>)])

\* Lines 375-379 (706-710) on store object n
StoreMerged(h, n, rows) ==
    LET h1 == SetAttr(h, n, "data", GetAttr(h, n, "data") \o rows)
        h2 == InPlace(h1, n, "data", MergeData(GetAttr(h, n, "data"), rows))
    IN  SetAttr(h2, n, "dates", DatesOfFrame(GetAttr(h2, n, "data")))

StoreLoad(n) ==
    /\ heap' = [StoreLoaded(heap, n) EXCEPT !.last = n]
    /\ UNCHANGED <<kind, _data, _dates, file, pc, save, todo, threads, results,
                   weather_data, call, rt, mrg, qry, cols, suspended, norm>>

StoreSave(n) ==
    /\ \E w \in to_csv(GetAttr(heap, n, "data"), heap.files[heap.inst[n].cls]) :
          heap' = [heap EXCEPT !.files[heap.inst[n].cls] = w.file, !.last = n]
    /\ UNCHANGED <<kind, _data, _dates, file, pc, save, todo, threads, results,
                   weather_data, call, rt, mrg, qry, cols, suspended, norm>>

\* compose(D, s) on store object n.  A store that a load with mixed offsets
\* has left with rows but without their dates fetches them again and grows
\* with every such round; the calls are followed while the store holds no
\* two rows of the same time.
StoreCompose(n, D, s) ==
    /\ \A i, j \in 1..Len(GetAttr(heap, n, "data")) :
          GetAttr(heap, n, "data")[i].time = GetAttr(heap, n, "data")[j].time => i = j
    /\ LET c  == heap.inst[n].cls
           implicit == GetAttr(heap, n, "dates") = {}
           h1 == IF implicit THEN StoreLoaded(heap, n) ELSE heap
           loadRaises == implicit /\ load(GetAttr(heap, n, "data"), {}, heap.files[c]).raised
           missing == MissingDates(D, GetAttr(h1, n, "dates"))
       IN  IF loadRaises \/ missing = {}
           THEN heap' = [h1 EXCEPT !.last = n]
           ELSE \E ok \in {missing, {}} :
                  LET wd == WeatherDataOf(c, missing, ok)
                      raises == IF c = "AEMET" THEN ok = {} ELSE DateColumnRaises(wd)
                      h2 == StoreMerged(h1, n, IF c = "AEMET" THEN wd ELSE WithDateColumn(wd))
                  IN  IF raises THEN heap' = [h1 EXCEPT !.last = n]
                      ELSE IF s
                           THEN \E w \in to_csv(GetAttr(h2, n, "data"), h2.files[c]) :
                                   heap' = [h2 EXCEPT !.files[c] = w.file, !.last = n]
                      ELSE heap' = [h2 EXCEPT !.last = n]
    /\ UNCHANGED <<kind, _data, _dates, file, pc, save, todo, threads, results,
                   weather_data, call, rt, mrg, qry, cols, suspended, norm>>

InitInstances ==
    /\ kind = "AEMET"
    /\ _data = <<>>
    /\ _dates = {}
    /\ file = NoFile
    /\ pc = "idle"
    /\ save = FALSE
    /\ todo = <<>>
    /\ threads = {}
    /\ results = <<>>
    /\ weather_data = <<>>
    /\ call = NoCall
    /\ rt = NoRoundTrip
    /\ mrg = NoMerge
    /\ qry = NoQuery
    /\ cols = NoColumns
    /\ suspended = NoThread
    /\ \E i \in [StoreNames -> Classes] :
          heap = [NoHeap EXCEPT !.inst = [n \in StoreNames |-> NewStore(i[n])]]
    /\ norm = NoNorm

NextInstances ==
    \/ \E n \in StoreNames : StoreLoad(n)
    \/ \E n \in StoreNames : StoreSave(n)
    \/ \E n \in StoreNames, d \in Dates, s \in BOOLEAN : StoreCompose(n, {d}, s)

SpecInstances == InitInstances /\ [][NextInstances]_vars

-----------------------------------------------------------------------------
(* average_min_max_columns on its own: a renamed response row with any of    *)
(* the columns T, Tmin, Tmax, p, pmin, pmax is normalised.                    *)

\* The values of a column: readings with one decimal, in tenths
Readings == {100 * v : v \in 0..MaxVal}

\* The column names a response may carry
ResponseColumns == {Col(st, ext) : st \in {"T", "p"}, ext \in {"", "min", "max"}}

InitAverage ==
    /\ kind = "AEMET"
    /\ _data = <<>>
    /\ _dates = {}
    /\ file = NoFile
    /\ pc = "idle"
    /\ save = FALSE
    /\ todo = <<>>
    /\ threads = {}
    /\ results = <<>>
    /\ weather_data = <<>>
    /\ call = NoCall
    /\ rt = NoRoundTrip
    /\ mrg = NoMerge
    /\ qry = NoQuery
    /\ cols = NoColumns
    /\ suspended = NoThread
    /\ heap = NoHeap
    /\ \E C \in SUBSET ResponseColumns :
          \E df \in [C -> Readings] : norm = [df |-> <<df>>, out |-> <<>>]

AverageMinMax ==
    /\ norm.out = <<>>
    /\ norm' = [norm EXCEPT !.out = <<average_min_max_columns(norm.df[1])>>]
    /\ UNCHANGED <<kind, _data, _dates, file, pc, save, todo, threads, results,
                   weather_data, call, rt, mrg, qry, cols, suspended, heap>>

NextAverage == AverageMinMax

SpecAverage == InitAverage /\ [][NextAverage]_vars

-----------------------------------------------------------------------------
(* Properties *)

RowsOn(frame, d) == {i \in 1..Len(frame) : frame[i].date = d}

RowsAt(frame, d, h) == {i \in 1..Len(frame) : frame[i].date = d /\ frame[i].hour = h}

ComposeReturned == call.op = "compose" /\ call.done

\* C1, as stated: a compose for the dates D that follows a compose for the
\* same D starts no fetch, whatever the store and whatever the first did.
C1_SecondCallFetchesNothing ==
    (call.op = "compose" /\ call.repeat) => call.fetched = {}

\* C1, amended: a compose for D that follows a compose for the same D starts
\* fetches only for dates of D that are not cached when the first returns;
\* none at all when the first left every date of D cached.
C1_SecondCallFetchesOnlyUncached ==
    (call.op = "compose" /\ call.repeat) =>
        call.fetched \subseteq (call.dates \ call.before.dates)

\* C1 witness: a repeated compose for dates that the first call cached has
\* returned without fetching.
C1_Witness ==
    /\ ComposeReturned /\ call.repeat
    /\ call.dates # {} /\ call.dates \subseteq call.before.dates
    /\ call.fetched = {}

\* C2: when the fetches of some dates fail and those of other dates succeed,
\* compose returns without raising, every date that succeeded has rows and
\* is cached, every date that failed has no row and is not cached.
C2_PartialFailureIsolated ==
    (ComposeReturned /\ call.okDates # {} /\ call.failedDates # {}) =>
        /\ ~call.raised
        /\ \A d \in call.okDates : d \in _dates /\ RowsOn(_data, d) # {}
        /\ \A d \in call.failedDates : d \notin _dates /\ RowsOn(_data, d) = {}

\* C3: when every fetch of a compose fails or yields no data, compose
\* returns without raising and the rows and cached dates are those of
\* before the call.
C3_AllFailIsNoOp ==
    (ComposeReturned /\ call.fetched # {} /\ call.failedDates = call.fetched) =>
        /\ ~call.raised
        /\ _data = call.before.data
        /\ _dates = call.before.dates

\* C4, as stated: from the entry of compose until its merge step, and after
\* a compose that ended before its merge step, the rows and the cached dates
\* are those of before the call.
C4_UnchangedSinceCall ==
    (call.op = "compose" /\ ~call.merged) =>
        (_data = call.before.data /\ _dates = call.before.dates)

\* C4, amended: once compose's implicit load has run, the rows and the cached
\* dates are not modified before every fetch thread is joined and the merge
\* step runs; a compose that ends before its merge step leaves them as that
\* load left them, and the merge step runs with no thread alive.
C4_NoHalfMerge ==
    /\ (call.op = "compose" /\ ~call.merged) =>
          (_data = call.start.data /\ _dates = call.start.dates)
    /\ (call.op = "compose" /\ call.merged) => (call.done /\ threads = {})

\* C4 witness: a compose whose threads had started ended with an exception
\* before its merge step, on a store that holds rows.
C4_Witness ==
    /\ ComposeReturned /\ call.raised /\ ~call.merged
    /\ call.fetched # {}
    /\ _data # <<>> /\ _data = call.start.data

C6_LoadWithoutFile ==
    (call.op = "load" /\ ~call.hadFile) =>
        /\ ~call.raised
        /\ _data = call.before.data
        /\ _dates = call.before.dates

\* C6 witness: load() has run without a file on a store that holds rows.
C6_Witness ==
    call.op = "load" /\ ~call.hadFile /\ ~file.exists /\ _data # <<>> /\ _dates # {}

\* C7: save() and then load() into a new instance on the same file gives the
\* rows and the cached dates held at the save.
C7_RoundTrip ==
    rt.stage = "loaded" => (~call.raised /\ _data = rt.data /\ _dates = rt.dates)

OneRowPerDateHour(frame) ==
    \A i, j \in 1..Len(frame) :
        (frame[i].date = frame[j].date /\ frame[i].hour = frame[j].hour) => i = j

\* C8: no store object ever holds two rows of the same date and hour.
C8_OneRowPerDateHour ==
    /\ OneRowPerDateHour(_data)
    /\ \A n \in StoreNames : OneRowPerDateHour(GetAttr(heap, n, "data"))

\* C9: once the merge step has received a row whose date and hour are those
\* of a row merged before, one row of that date and hour is left and it is
\* the one merged later.
C9_LaterRowWins ==
    mrg.phase = "two" =>
        \A k \in 1..Len(mrg.B) :
            /\ Cardinality(RowsAt(mrg.ab, mrg.B[k].date, mrg.B[k].hour)) = 1
            /\ \A i \in RowsAt(mrg.ab, mrg.B[k].date, mrg.B[k].hour) : mrg.ab[i] = mrg.B[k]

\* How many times the row r occurs in the frame
Count(frame, r) == Cardinality({i \in 1..Len(frame) : frame[i] = r})

SameRows(f, g) ==
    /\ Len(f) = Len(g)
    /\ \A i \in 1..Len(f) : Count(f, f[i]) = Count(g, f[i])

DistinctTimes(frame) ==
    \A i, j \in 1..Len(frame) : frame[i].time = frame[j].time => i = j

\* C10: for batches A and B of disjoint dates, merging A then B leaves the
\* same rows and the same cached dates as merging B then A, in the same
\* order when no two rows share a timestamp.
C10_MergeCommutes ==
    (mrg.phase = "two" /\ DatesOfFrame(mrg.A) \cap DatesOfFrame(mrg.B) = {}) =>
        /\ SameRows(mrg.ab, mrg.ba)
        /\ DatesOfFrame(mrg.ab) = DatesOfFrame(mrg.ba)
        /\ DistinctTimes(mrg.ab) => mrg.ab = mrg.ba

\* C10 witness: two batches of disjoint dates, the second one of earlier
\* dates than the first, have been merged in both orders and no two rows
\* share a timestamp.
C10_Witness ==
    /\ mrg.phase = "two"
    /\ DatesOfFrame(mrg.A) \cap DatesOfFrame(mrg.B) = {}
    /\ mrg.B[1].time.utc < mrg.A[1].time.utc
    /\ DistinctTimes(mrg.ab)
    /\ Len(mrg.ab) = Len(_data) + Len(mrg.A) + Len(mrg.B)
    /\ mrg.ab = mrg.ba

\* frame['date']: the values of the column date
DateValues(frame) == {frame[i].date : i \in 1..Len(frame)}

\* C11: after every load() and after every compose that merged rows, the
\* cached dates are exactly the values of the column date of the rows held:
\* every cached date has a row and every row's date is cached.
C11_CachedDatesAreRowDates ==
    (call.done /\ (call.op = "load" \/ (call.op = "compose" /\ call.merged))) =>
        _dates = DateValues(_data)

SortedByTime(frame) ==
    \A i, j \in 1..Len(frame) : i < j => frame[i].time.utc <= frame[j].time.utc

\* C12: after every compose that merged rows, all rows of the store, those
\* held before and those added, are in ascending order of their timestamps,
\* whatever the order of the requested dates and of the threads' results.
C12_SortedAfterMerge ==
    (ComposeReturned /\ call.merged) => SortedByTime(_data)

\* C12 witness: a compose has merged, into a store that held rows, rows of
\* which one is earlier than every row held before.
C12_Witness ==
    /\ ComposeReturned /\ call.merged
    /\ call.start.data # <<>>
    /\ Len(_data) > Len(call.start.data)
    /\ \A i \in 1..Len(call.start.data) : _data[1].time.utc < call.start.data[i].time.utc

\* Every row of the frame f is a row of the frame g, as many times at least
RowsKept(f, g) == \A i \in 1..Len(f) : Count(f, f[i]) <= Count(g, f[i])

\* C13: no compose and no save removes or alters a row of the store: every
\* row held when the call began (before the implicit load() of compose) is
\* held, with its timestamp, date, hour and values, while compose runs and
\* after it ended, and after save.
C13_NoRowRemoved ==
    (call.op \in {"compose", "save"}) => RowsKept(call.before.data, _data)

\* C14: save() leaves the rows and the cached dates in memory as they were,
\* whether the write succeeds or raises; a save that succeeds leaves a file
\* that holds the current rows and nothing of its previous content.
C14_SaveFrame ==
    (call.op = "save") =>
        /\ _data = call.before.data
        /\ _dates = call.before.dates
        /\ ~call.raised => file = ToCsv(_data)

\* C14 witness: a save that raised was tried again and succeeded, on a store
\* that holds rows and over a file that existed.
C14_Witness ==
    /\ call.op = "save" /\ call.repeat /\ ~call.raised
    /\ call.hadFile
    /\ _data # <<>> /\ _data = call.before.data
    /\ file = ToCsv(_data)

\* C15: a get_daily_weather with both hours given, 0 <= startHour <= endHour,
\* that returns a frame returns the rows of the store whose date is among
\* the dates asked for and whose hour is from startHour to endHour, and no
\* other row.
C15_HourRange ==
    (/\ qry.stage = "returned" /\ qry.error = ""
     /\ qry.startHour # <<>> /\ qry.endHour # <<>>
     /\ qry.startHour[1] <= qry.endHour[1]) =>
        qry.df = SelectSeq(_data, LAMBDA r : /\ r.date \in qry.dates
                                             /\ qry.startHour[1] <= r.hour
                                             /\ r.hour <= qry.endHour[1])

\* C16: a get_daily_weather with startHour > endHour starts no compose,
\* leaves the store as it was and ends with an InvalidRange error instead of
\* returning rows.
C16_InvalidRangeRejected ==
    (/\ qry.stage # "none"
     /\ qry.startHour # <<>> /\ qry.endHour # <<>>
     /\ qry.startHour[1] > qry.endHour[1]) =>
        /\ call.op # "compose"
        /\ _data = qry.before.data /\ _dates = qry.before.dates
        /\ qry.stage = "returned" => (qry.error = "InvalidRange" /\ qry.df = <<>>)

\* C17: for the hourly provider, when all requests of a date were answered
\* and at an hour h relative humidity (code 33) has no validated reading
\* while temperature (code 32) has one, then after the compose the store
\* holds a row of that date and hour with a timestamp, T set and RH null.
C17_MissingReadingIsNull ==
    (ComposeReturned /\ kind = "Meteocat") =>
        \A d \in call.okDates, h \in Hours :
            (Estat(d, 32, h) = "V" /\ Estat(d, 33, h) = "T") =>
                \E i \in RowsAt(_data, d, h) :
                    /\ _data[i].time # NaT
                    /\ _data[i].vals["T"] # <<>>
                    /\ _data[i].vals["RH"] = <<>>

\* C18: a compose that started fetches returns a report: the numbers of the
\* dates fully filled, partially filled and fully failed, and a list of
\* errors that is empty only if every thread delivered a result.
C18_FailuresReported ==
    (ComposeReturned /\ call.fetched # {}) =>
        /\ call.returned # <<>>
        /\ call.returned[1].filled = Cardinality(call.okDates)
        /\ call.returned[1].failed = Cardinality(call.failedDates)
        /\ call.returned[1].partial =
              Cardinality(call.fetched \ (call.okDates \cup call.failedDates))
        /\ (call.returned[1].errors = <<>>) <=> (call.fetched = call.okDates)

\* C19: _find_column_name returns a short name as it is, returns for the
\* long name of a short name that short name, and raises KeyError exactly
\* for a name that is a key of neither the object's short-to-long mapping
\* nor its long-to-short mapping.
C19_FindColumnName ==
    \A i \in 1..Len(cols.found) :
        LET f     == cols.found[i]
            short == cols.shortnames
            long  == cols.objs[f.obj].longnames
        IN  /\ f.column \in Keys(short) => (~f.raised /\ f.result = f.column)
            /\ \A k \in 1..Len(short) :
                  (short[k][2] = f.column /\ f.column \notin Keys(short)) =>
                      (~f.raised /\ f.result = short[k][1])
            /\ f.raised <=> (f.column \notin Keys(short) /\ f.column \notin Keys(long))

\* The dates whose rows the compose call c has merged into the store
MergedDates(c) == IF c.merged THEN c.fetched \ c.failedDates ELSE {}

\* C20: when two compose calls on the same store have overlapped and both
\* have ended, the store holds the rows both have fetched and merged, and
\* no two rows of the same date and hour.
C20_ConcurrentComposeExclusive ==
    (/\ suspended.pc = "idle" /\ suspended.overlapped
     /\ ComposeReturned
     /\ suspended.call.op = "compose" /\ suspended.call.done) =>
        /\ \A d \in MergedDates(call) \cup MergedDates(suspended.call) :
              d \in _dates /\ RowsOn(_data, d) # {}
        /\ \A i, j \in 1..Len(_data) :
              (_data[i].date = _data[j].date /\ _data[i].hour = _data[j].hour) => i = j

\* The rows a compose hands to its merge step when every thread of the
\* fetched dates F delivers and the results of a date arrive in the order
\* in which the threads were started
RowsInStartOrder(F) == WeatherDataOf(kind, F, F)

\* C21: after a compose all of whose threads delivered a result, the rows
\* of the store are those that the results give when they arrive in the
\* order in which the threads were started, in whatever order they did
\* arrive.
C21_CompletionOrderIrrelevant ==
    (ComposeReturned /\ call.fetched # {} /\ call.okDates = call.fetched) =>
        SameRows(_data,
                 IF DateColumnRaises(RowsInStartOrder(call.fetched))
                 THEN call.start.data
                 ELSE MergeData(call.start.data,
                                IF kind = "AEMET" THEN RowsInStartOrder(call.fetched)
                                ELSE WithDateColumn(RowsInStartOrder(call.fetched))))

\* C22: a compose that got as far as computing the missing dates has, when
\* it ends, started exactly one thread for every unit of every date that
\* was requested and not cached when it computed them (one unit per date
\* for AEMET, one per date and variable code for Meteocat), and no thread
\* for anything else.
C22_TasksForMissingOnly ==
    (ComposeReturned /\ (call.fetched # {} \/ ~call.raised)) =>
        \A t \in AllTasks :
            call.started[t] =
                IF /\ t.date \in call.dates \ call.start.dates
                   /\ t.code \in (IF kind = "AEMET" THEN {0} ELSE MeteocatCodes)
                THEN 1 ELSE 0

\* C22 witness: a compose was asked for a cached and a missing date and
\* started threads.
C22_Witness ==
    /\ ComposeReturned
    /\ call.dates \cap call.start.dates # {}
    /\ call.dates \ call.start.dates # {}
    /\ \E t \in AllTasks : call.started[t] = 1

\* C23: when every started thread ends, a compose that has started threads
\* comes to its end; and no step of a compose with a thread still running
\* ends the call, changes the rows or the cached dates, or writes the file.
C23_JoinsAllThenReturns ==
    /\ (pc = "join") ~> (pc = "idle")
    /\ [][(pc = "join" /\ threads # {}) =>
              /\ pc' = "join"
              /\ ~call'.done
              /\ UNCHANGED <<_data, _dates, file>>]_vars

\* C23 witness: a compose that started threads for two dates has ended
\* after merging.
C23_Witness ==
    /\ ComposeReturned
    /\ Cardinality(call.fetched) > 1
    /\ call.merged
    /\ threads = {}

\* C24: an operation called on one store object leaves the rows and the
\* cached dates that every other store object reads as they were.
C24_InstancesIndependent ==
    [][\A n \in StoreNames :
          n # heap'.last =>
              /\ GetAttr(heap', n, "data") = GetAttr(heap, n, "data")
              /\ GetAttr(heap', n, "dates") = GetAttr(heap, n, "dates")]_vars

\* C24 witness: a store object holds rows after a compose called on it
\* while another object of its class has never been given rows or dates.
C24_Witness ==
    \E n, m \in StoreNames :
        /\ n # m
        /\ heap.last = n
        /\ heap.inst[n].cls = heap.inst[m].cls
        /\ GetAttr(heap, n, "data") # <<>>
        /\ GetAttr(heap, n, "dates") # {}
        /\ heap.inst[m].data = <<>>
        /\ heap.inst[m].dates = <<>>

\* The short-to-long mapping and the long-to-short mapping of metrics
\* object i are inverses of each other.
MutualInverses(c, i) ==
    /\ \A k \in Keys(c.shortnames) :
          /\ Get(c.shortnames, k) \in Keys(c.objs[i].longnames)
          /\ Get(c.objs[i].longnames, Get(c.shortnames, k)) = k
    /\ \A l \in Keys(c.objs[i].longnames) :
          /\ Get(c.objs[i].longnames, l) \in Keys(c.shortnames)
          /\ Get(c.shortnames, Get(c.objs[i].longnames, l)) = l

\* C25: the two mappings of every metrics object are inverses of each
\* other, and no step, the construction of another metrics object included,
\* changes for an object that exists whether _find_column_name accepts a
\* name or what it returns for it.
C25_ResolverFixedBijection ==
    /\ [](\A i \in 1..Len(cols.objs) : MutualInverses(cols, i))
    /\ [][\A i \in 1..Len(cols.objs), column \in ColumnNames :
             _find_column_name(cols'.shortnames, cols'.objs[i].longnames, column)
               = _find_column_name(cols.shortnames, cols.objs[i].longnames, column)]_vars

\* The rows of date d in a frame
NumRowsOn(frame, d) == Cardinality({i \in 1..Len(frame) : frame[i].date = d})

\* C26: after an AEMET compose that merged, each date whose thread
\* delivered has exactly one row more than before, and all rows of the
\* store carry the same hour, whatever the date.
C26_OneRowSameHour ==
    (kind = "AEMET" /\ ComposeReturned /\ call.merged) =>
        /\ \A d \in call.okDates :
              NumRowsOn(_data, d) = NumRowsOn(call.start.data, d) + 1
        /\ \A i, j \in 1..Len(_data) : _data[i].hour = _data[j].hour

C28_FreshStoreFetchesNothing ==
    (/\ ComposeReturned
     /\ call.before = [data |-> <<>>, dates |-> {}]
     /\ call.hadFile
     /\ call.dates # {}
     /\ call.dates \subseteq {call.start.data[i].date : i \in 1..Len(call.start.data)}) =>
        /\ ~call.raised
        /\ call.fetched = {}
        /\ _data = call.start.data
        /\ call.dates \subseteq _dates

\* C29: a Meteocat compose starts no thread for a requested date of which
\* the store holds a row, whether or not that row has every variable, and
\* starts the threads of every requested date of which the store, after the
\* implicit load, holds no row.
C29_PartialDatesNotRefetched ==
    (kind = "Meteocat" /\ ComposeReturned) =>
        \A d \in call.dates :
            /\ (d \in DateValues(call.before.data) \/ d \in DateValues(call.start.data))
                  => d \notin call.fetched
            /\ d \notin DateValues(call.start.data) => d \in call.fetched

\* What a step of compose does to the file, apart from the step that ends
\* a compose with save that merged: a compose that starts no thread does
\* not write the file, and no step of a compose without save writes it.
ComposeWritesOnlyOnSave ==
    /\ (pc = "idle" /\ pc' = "idle" /\ call'.op = "compose") => file' = file
    /\ (pc = "join" /\ pc' = "join") => file' = file
    /\ (pc = "join" /\ ~save) => file' = file
    /\ (pc = "join" /\ pc' = "idle" /\ ~call'.merged) => file' = file

====
